---------------------------- MODULE Spec2Model ----------------------------
(***************************************************************************)
(* A model of cgmath's Quaternion<S> (src/src/cgmath/quaternion.rs).       *)
(*                                                                         *)
(* The scalar type S is modelled by exact rational arithmetic extended     *)
(* with the IEEE special values the code can produce by dividing by zero   *)
(* (+inf, -inf, NaN) and with one abstract value, Inexact, that stands for *)
(* a result the rationals cannot represent (an irrational square root or   *)
(* an irrational value of a trigonometric function).  Rounding and signed  *)
(* zeros are not modelled.                                                 *)
(***************************************************************************)
EXTENDS Integers, Sequences, FiniteSets, TLC

(***************************************************************************)
(* Bounds of the model.                                                    *)
(***************************************************************************)
\* scalar arguments are the fractions n/d with |n| <= MaxNum, 1 <= d <= MaxDen
MaxNum == 2
MaxDen == 2
\* calls made on one receiver after its construction
MaxCalls == 1
\* length of a chain of rotation-interface calls starting at identity()
MaxChain == 3

(***************************************************************************)
(* The scalar type S.                                                      *)
(***************************************************************************)
RECURSIVE GCD(_, _)
GCD(a, b) == IF b = 0 THEN a ELSE GCD(b, a % b)

Abs(n) == IF n < 0 THEN -n ELSE n

\* the fraction n/d (d > 0) in lowest terms
Frac(n, d) ==
    LET g == GCD(Abs(n), d)
    IN  [n |-> n \div g, d |-> d \div g]

Int2S(n) == [n |-> n, d |-> 1]

NaN     == [n |-> 0, d |-> 0]
PosInf  == [n |-> 1, d |-> 0]
NegInf  == [n |-> -1, d |-> 0]
Inexact == [n |-> 2, d |-> 0]

IsFin(a) == a.d > 0

zero_s == Int2S(0)
one_s  == Int2S(1)

Sign(a) == IF a.n > 0 THEN 1 ELSE IF a.n < 0 THEN -1 ELSE 0

SNeg(a) == IF a = Inexact THEN Inexact ELSE [n |-> -a.n, d |-> a.d]

SAdd(a, b) ==
    IF IsFin(a) /\ IsFin(b)
    THEN LET g == GCD(a.d, b.d)
         IN  Frac(a.n * (b.d \div g) + b.n * (a.d \div g), (a.d \div g) * b.d)
    ELSE IF a = NaN \/ b = NaN THEN NaN
    ELSE IF a = Inexact \/ b = Inexact THEN Inexact
    ELSE IF ~IsFin(a) /\ ~IsFin(b) THEN (IF a = b THEN a ELSE NaN)
    ELSE IF IsFin(a) THEN b ELSE a

SSub(a, b) == SAdd(a, SNeg(b))

SMul(a, b) ==
    IF IsFin(a) /\ IsFin(b)
    THEN LET g == GCD(Abs(a.n), b.d)
             h == GCD(Abs(b.n), a.d)
         IN  Frac((a.n \div g) * (b.n \div h), (a.d \div h) * (b.d \div g))
    ELSE IF a = NaN \/ b = NaN THEN NaN
    ELSE IF a = Inexact \/ b = Inexact THEN Inexact
    ELSE IF Sign(a) * Sign(b) > 0 THEN PosInf
    ELSE IF Sign(a) * Sign(b) < 0 THEN NegInf
    ELSE NaN

\* 1/a; 1/0 is +inf and 1/inf is 0
SRecip(a) ==
    IF a = NaN \/ a = Inexact THEN a
    ELSE IF ~IsFin(a) THEN zero_s
    ELSE IF a.n = 0 THEN PosInf
    ELSE IF a.n > 0 THEN [n |-> a.d, d |-> a.n]
    ELSE [n |-> -a.d, d |-> -a.n]

\* a/b; x/0 is +-inf for x # 0 and NaN for x = 0
SDiv(a, b) == SMul(a, SRecip(b))

\* a < b; FALSE when either side is NaN (or not known)
SLt(a, b) ==
    IF IsFin(a) /\ IsFin(b) THEN a.n * b.d < b.n * a.d
    ELSE IF a = NaN \/ b = NaN \/ a = Inexact \/ b = Inexact THEN FALSE
    ELSE (a = NegInf /\ b # NegInf) \/ (b = PosInf /\ a # PosInf)

SGt(a, b) == SLt(b, a)

\* the largest r in lo..hi with r * r <= n, by bisection (lo * lo <= n)
RECURSIVE FloorSqrt(_, _, _)
FloorSqrt(n, lo, hi) ==
    IF lo = hi THEN lo
    ELSE LET mid == (lo + hi + 1) \div 2
         IN  IF mid <= n \div mid THEN FloorSqrt(n, mid, hi)
             ELSE FloorSqrt(n, lo, mid - 1)

ISqrt(n) == FloorSqrt(n, 0, n)

IsSquare(n) == ISqrt(n) * ISqrt(n) = n

\* sqrt: exact on squares of rationals, NaN below zero, Inexact elsewhere
SSqrt(a) ==
    IF a = NaN \/ a = Inexact \/ a = PosInf THEN a
    ELSE IF a.n < 0 THEN NaN
    ELSE IF IsSquare(a.n) /\ IsSquare(a.d) THEN [n |-> ISqrt(a.n), d |-> ISqrt(a.d)]
    ELSE Inexact

(***************************************************************************)
(* Vector3<S>: the operations the quaternion code calls.                   *)
(***************************************************************************)
Vector3_new(x, y, z) == [x |-> x, y |-> y, z |-> z]

Vector3_zero == Vector3_new(zero_s, zero_s, zero_s)

v_mul_s(self, s) == Vector3_new(SMul(self.x, s), SMul(self.y, s), SMul(self.z, s))

v_div_s(self, s) == Vector3_new(SDiv(self.x, s), SDiv(self.y, s), SDiv(self.z, s))

v_add_v(a, b) == Vector3_new(SAdd(a.x, b.x), SAdd(a.y, b.y), SAdd(a.z, b.z))

v_neg(self) == Vector3_new(SNeg(self.x), SNeg(self.y), SNeg(self.z))

v_dot(a, b) == SAdd(SAdd(SMul(a.x, b.x), SMul(a.y, b.y)), SMul(a.z, b.z))

v_cross(a, b) ==
    Vector3_new(SSub(SMul(a.y, b.z), SMul(a.z, b.y)),
                SSub(SMul(a.z, b.x), SMul(a.x, b.z)),
                SSub(SMul(a.x, b.y), SMul(a.y, b.x)))

v_length2(self) == v_dot(self, self)

(***************************************************************************)
(* Quaternion<S>.                                                          *)
(***************************************************************************)
from_sv(s, v) == [s |-> s, v |-> v]

new(w, xi, yj, zk) == from_sv(w, Vector3_new(xi, yj, zk))

zero == new(zero_s, zero_s, zero_s, zero_s)

identity == from_sv(one_s, Vector3_zero)

\* array!(impl<S> Quaternion<S> -> [S, ..4] _4): the components by index
i(q, n) == CASE n = 0 -> q.s [] n = 1 -> q.v.x [] n = 2 -> q.v.y [] n = 3 -> q.v.z

\* build(|i| ...): the closure is given as the function from index to component
build(f) == new(f[0], f[1], f[2], f[3])

\* each_mut(|i, x| *x = ...): the closure is given as the function from index
\* i to the value it stores in component i, where x is i(self, i)
each_mut(self, f) == new(f[0], f[1], f[2], f[3])

mul_s(self, value) == from_sv(SMul(self.s, value), v_mul_s(self.v, value))

div_s(self, value) == from_sv(SDiv(self.s, value), v_div_s(self.v, value))

\* mul_v adding tmp back instead of vec
mul_v_adds_tmp(self, vec) ==
    LET tmp == v_add_v(v_cross(self.v, vec), v_mul_s(vec, self.s))
    IN  v_add_v(v_mul_s(v_cross(self.v, tmp), Int2S(2)), tmp)

mul_v(self, vec) ==
    LET tmp == v_add_v(v_cross(self.v, vec), v_mul_s(vec, self.s))
    IN  v_add_v(v_mul_s(v_cross(self.v, tmp), Int2S(2)), vec)

add_q(self, other) == build([n \in 0..3 |-> SAdd(i(self, n), i(other, n))])

sub_q(self, other) == build([n \in 0..3 |-> SAdd(i(self, n), i(other, n))])

\* mul_q with the operands of the cross terms exchanged (other * self)
mul_q_reversed(self, other) ==
    new(SSub(SSub(SSub(SMul(self.s, other.s), SMul(self.v.x, other.v.x)),
                  SMul(self.v.y, other.v.y)), SMul(self.v.z, other.v.z)),
        SSub(SAdd(SAdd(SMul(self.s, other.v.x), SMul(self.v.x, other.s)),
                  SMul(self.v.z, other.v.y)), SMul(self.v.y, other.v.z)),
        SSub(SAdd(SAdd(SMul(self.s, other.v.y), SMul(self.v.y, other.s)),
                  SMul(self.v.x, other.v.z)), SMul(self.v.z, other.v.x)),
        SSub(SAdd(SAdd(SMul(self.s, other.v.z), SMul(self.v.z, other.s)),
                  SMul(self.v.y, other.v.x)), SMul(self.v.x, other.v.y)))

\* mul_q adding the x product in the scalar part
mul_q_scalar_sign(self, other) ==
    new(SSub(SSub(SAdd(SMul(self.s, other.s), SMul(self.v.x, other.v.x)),
                  SMul(self.v.y, other.v.y)), SMul(self.v.z, other.v.z)),
        SSub(SAdd(SAdd(SMul(self.s, other.v.x), SMul(self.v.x, other.s)),
                  SMul(self.v.y, other.v.z)), SMul(self.v.z, other.v.y)),
        SSub(SAdd(SAdd(SMul(self.s, other.v.y), SMul(self.v.y, other.s)),
                  SMul(self.v.z, other.v.x)), SMul(self.v.x, other.v.z)),
        SSub(SAdd(SAdd(SMul(self.s, other.v.z), SMul(self.v.z, other.s)),
                  SMul(self.v.x, other.v.y)), SMul(self.v.y, other.v.x)))

mul_q(self, other) ==
    new(SSub(SSub(SSub(SMul(self.s, other.s), SMul(self.v.x, other.v.x)),
                  SMul(self.v.y, other.v.y)), SMul(self.v.z, other.v.z)),
        SSub(SAdd(SAdd(SMul(self.s, other.v.x), SMul(self.v.x, other.s)),
                  SMul(self.v.y, other.v.z)), SMul(self.v.z, other.v.y)),
        SSub(SAdd(SAdd(SMul(self.s, other.v.y), SMul(self.v.y, other.s)),
                  SMul(self.v.z, other.v.x)), SMul(self.v.x, other.v.z)),
        SSub(SAdd(SAdd(SMul(self.s, other.v.z), SMul(self.v.z, other.s)),
                  SMul(self.v.x, other.v.y)), SMul(self.v.y, other.v.x)))

\* the in-place variants, as the value they leave in the receiver
mul_self_s(self, s) == each_mut(self, [n \in 0..3 |-> SMul(i(self, n), s)])

div_self_s(self, s) == each_mut(self, [n \in 0..3 |-> SDiv(i(self, n), s)])

add_self_q(self, other) ==
    each_mut(self, [n \in 0..3 |-> SAdd(i(self, n), i(other, n))])

sub_self_q(self, other) ==
    each_mut(self, [n \in 0..3 |-> SSub(i(self, n), i(other, n))])

mul_self_q(self, other) == mul_q(self, other)

dot(self, other) == SAdd(SMul(self.s, other.s), v_dot(self.v, other.v))

\* conjugate negating the scalar part too
conjugate_negates_all(self) == from_sv(SNeg(self.s), v_neg(self.v))

conjugate(self) == from_sv(self.s, v_neg(self.v))

magnitude2(self) == SAdd(SMul(self.s, self.s), v_length2(self.v))

magnitude(self) == SSqrt(magnitude2(self))

normalize(self) == mul_s(self, SDiv(one_s, magnitude(self)))

nlerp(self, other, amount) ==
    normalize(add_q(mul_s(self, SSub(one_s, amount)), mul_s(other, amount)))

neg(self) == from_sv(SNeg(self.s), v_neg(self.v))

(***************************************************************************)
(* The angle module: Rad<S> and the functions the quaternion code calls.   *)
(* An angle is kept as a multiple of pi, [pi |-> r] standing for r*pi      *)
(* radians.  sin and acos are exact where their value is rational and      *)
(* Inexact elsewhere.                                                      *)
(***************************************************************************)
Rad(r) == [pi |-> r]

rad_mul_s(a, s) == Rad(SMul(a.pi, s))

\* r reduced into [0, 2), for finite r
Mod2(r) == Frac(r.n - 2 * r.d * (r.n \div (2 * r.d)), r.d)

sin(a) ==
    IF a.pi = NaN \/ a.pi = PosInf \/ a.pi = NegInf THEN NaN
    ELSE IF a.pi = Inexact THEN Inexact
    ELSE LET t == Mod2(a.pi)
         IN  CASE t = Frac(0, 1) \/ t = Frac(1, 1)  -> zero_s
               [] t = Frac(1, 6) \/ t = Frac(5, 6)  -> Frac(1, 2)
               [] t = Frac(1, 2)                    -> one_s
               [] t = Frac(7, 6) \/ t = Frac(11, 6) -> Frac(-1, 2)
               [] t = Frac(3, 2)                    -> Int2S(-1)
               [] OTHER                             -> Inexact

cos(a) == sin(Rad(SAdd(a.pi, Frac(1, 2))))

sin_cos(a) == <<sin(a), cos(a)>>

acos(x) ==
    IF x = NaN THEN Rad(NaN)
    ELSE IF x = Inexact THEN Rad(Inexact)
    ELSE IF SGt(x, one_s) \/ SLt(x, Int2S(-1)) THEN Rad(NaN)
    ELSE CASE x = one_s       -> Rad(zero_s)
           [] x = Frac(1, 2)  -> Rad(Frac(1, 3))
           [] x = zero_s      -> Rad(Frac(1, 2))
           [] x = Frac(-1, 2) -> Rad(Frac(2, 3))
           [] x = Int2S(-1)   -> Rad(one_s)
           [] OTHER           -> Rad(Inexact)

(***************************************************************************)
(* Interpolation.                                                          *)
(***************************************************************************)
dot_threshold == Frac(1999, 2000)

\* the clamp without its lower bound
robust_dot_no_lower(d) == IF SGt(d, one_s) THEN one_s ELSE d

\* stay within the domain of acos()
robust_dot(d) ==
    IF SGt(d, one_s) THEN one_s
    ELSE IF SLt(d, SNeg(one_s)) THEN SNeg(one_s)
    ELSE d

slerp(self, other, amount) ==
    LET d == dot(self, other)
    IN  IF SGt(d, dot_threshold)
        THEN nlerp(self, other, amount)
        ELSE LET theta  == acos(robust_dot(d))
                 scale1 == sin(rad_mul_s(theta, SSub(one_s, amount)))
                 scale2 == sin(rad_mul_s(theta, amount))
             IN  mul_s(add_q(mul_s(self, scale1), mul_s(other, scale2)),
                       SRecip(sin(theta)))

\* the arguments slerp hands to acos, in call order
slerp_acos_calls(self, other) ==
    LET d == dot(self, other)
    IN  IF SGt(d, dot_threshold) THEN <<>> ELSE <<robust_dot(d)>>

(***************************************************************************)
(* Conversions and the Rotation / Rotation3 interfaces.                    *)
(***************************************************************************)
\* the nine arguments of Matrix3::new, in argument order
Matrix3_new(a0, a1, a2, a3, a4, a5, a6, a7, a8) == <<a0, a1, a2, a3, a4, a5, a6, a7, a8>>

\* to_matrix3 passing the transposed matrix to Matrix3::new
to_matrix3_transposed(self) ==
    LET x2  == SAdd(self.v.x, self.v.x)
        y2  == SAdd(self.v.y, self.v.y)
        z2  == SAdd(self.v.z, self.v.z)
        xx2 == SMul(x2, self.v.x)
        xy2 == SMul(x2, self.v.y)
        xz2 == SMul(x2, self.v.z)
        yy2 == SMul(y2, self.v.y)
        yz2 == SMul(y2, self.v.z)
        zz2 == SMul(z2, self.v.z)
        sy2 == SMul(y2, self.s)
        sz2 == SMul(z2, self.s)
        sx2 == SMul(x2, self.s)
    IN  <<SSub(SSub(one_s, yy2), zz2), SSub(xy2, sz2), SAdd(xz2, sy2),
          SAdd(xy2, sz2), SSub(SSub(one_s, xx2), zz2), SSub(yz2, sx2),
          SSub(xz2, sy2), SAdd(yz2, sx2), SSub(SSub(one_s, xx2), yy2)>>

to_matrix3(self) ==
    LET x2  == SAdd(self.v.x, self.v.x)
        y2  == SAdd(self.v.y, self.v.y)
        z2  == SAdd(self.v.z, self.v.z)
        xx2 == SMul(x2, self.v.x)
        xy2 == SMul(x2, self.v.y)
        xz2 == SMul(x2, self.v.z)
        yy2 == SMul(y2, self.v.y)
        yz2 == SMul(y2, self.v.z)
        zz2 == SMul(z2, self.v.z)
        sy2 == SMul(y2, self.s)
        sz2 == SMul(z2, self.s)
        sx2 == SMul(x2, self.s)
    IN  Matrix3_new(SSub(SSub(one_s, yy2), zz2), SAdd(xy2, sz2), SSub(xz2, sy2),
                    SSub(xy2, sz2), SSub(SSub(one_s, xx2), zz2), SAdd(yz2, sx2),
                    SAdd(xz2, sy2), SSub(yz2, sx2), SSub(SSub(one_s, xx2), yy2))

\* the quaternion of between_vectors without the 1 added to the dot product
between_vectors_sv_no_one(a, b) == from_sv(v_dot(a, b), v_cross(a, b))

\* the quaternion between_vectors builds before it normalizes
between_vectors_sv(a, b) == from_sv(SAdd(one_s, v_dot(a, b)), v_cross(a, b))

between_vectors(a, b) == normalize(between_vectors_sv(a, b))

rotate_vector(self, vec) == mul_v(self, vec)

concat(self, other) == mul_q(self, other)

concat_self(self, other) == mul_self_q(self, other)

\* invert without the division by magnitude2
invert_undivided(self) == conjugate(self)

invert(self) == div_s(conjugate(self), magnitude2(self))

invert_self(self) == invert(self)

from_axis_angle(axis, angle) ==
    LET sc == sin_cos(rad_mul_s(angle, Frac(1, 2)))
    IN  from_sv(sc[2], v_mul_s(axis, sc[1]))

(***************************************************************************)
(* Inputs.                                                                 *)
(***************************************************************************)
ScalarIn == {Frac(n, d) : n \in -MaxNum..MaxNum, d \in 1..MaxDen}

Q4(w, x, y, z) == new(Int2S(w), Int2S(x), Int2S(y), Int2S(z))

V3(x, y, z) == Vector3_new(Int2S(x), Int2S(y), Int2S(z))

UnitQuatIn ==
    { Q4(1, 0, 0, 0), Q4(-1, 0, 0, 0), Q4(0, 1, 0, 0), Q4(0, 0, 1, 0), Q4(0, 0, 0, 1),
      new(Frac(1, 2), Frac(1, 2), Frac(1, 2), Frac(1, 2)),
      new(Frac(-1, 2), Frac(1, 2), Frac(-1, 2), Frac(1, 2)),
      new(zero_s, Frac(3, 5), Frac(4, 5), zero_s),
      new(Frac(3, 5), zero_s, zero_s, Frac(-4, 5)) }

QuatIn ==
    UnitQuatIn \cup
    { Q4(0, 0, 0, 0), Q4(2, 0, 0, 0), Q4(1, 1, 1, 1), Q4(1, -2, 3, 4),
      new(Int2S(-1), Frac(1, 2), zero_s, Int2S(2)) }

UnitVecIn ==
    { V3(1, 0, 0), V3(-1, 0, 0), V3(0, 1, 0), V3(0, -1, 0), V3(0, 0, 1), V3(0, 0, -1),
      Vector3_new(Frac(3, 5), Frac(4, 5), zero_s),
      Vector3_new(Frac(-3, 5), Frac(-4, 5), zero_s),
      Vector3_new(Frac(4, 5), Frac(3, 5), zero_s),
      Vector3_new(Frac(1, 3), Frac(-2, 3), Frac(2, 3)) }

VecIn == UnitVecIn \cup { V3(0, 0, 0), V3(1, 2, 3), V3(2, 0, 0), V3(-1, 1, 0) }

AngleIn == {Rad(r) : r \in ScalarIn}

\* interpolation amounts: the multiples of 1/MaxDen in [0, 1] and one step beyond
AmountIn == {Frac(n, MaxDen) : n \in -1..(MaxDen + 1)}

\* the quaternions a rotation chain is combined with
RotIn ==
    { Q4(0, 1, 0, 0), Q4(0, 0, 1, 0),
      new(Frac(1, 2), Frac(1, 2), Frac(1, 2), Frac(1, 2)),
      new(zero_s, Frac(3, 5), Frac(4, 5), zero_s),
      new(Frac(3, 5), zero_s, zero_s, Frac(-4, 5)),
      Q4(2, 0, 0, 0), Q4(0, 0, 0, 0) }

(***************************************************************************)
(* State: one receiver and the last call made on it.                       *)
(***************************************************************************)
VARIABLES
    self,        \* the receiver, a Quaternion<S>
    ctor,        \* the constructor call that built the receiver
    pre,         \* the receiver as it was before the last call
    op,          \* the name of the last call
    args,        \* its arguments
    ret,         \* its return value (<<>> for the in-place variants)
    acos_calls,  \* the arguments the last call handed to acos
    budget,      \* calls the receiver may still take
    chain_unit   \* the receiver is identity() combined only with quaternions
                 \* of magnitude2 1 and inverted

vars == <<self, ctor, pre, op, args, ret, acos_calls, budget, chain_unit>>

Unit == <<>>

Constructed(name, a, q) ==
    /\ self' = q
    /\ ctor' = [op |-> name, args |-> a]
    /\ pre' = q
    /\ op' = name
    /\ args' = a
    /\ ret' = q
    /\ acos_calls' = <<>>
    /\ budget' = MaxCalls
    /\ chain_unit' = (name = "identity")

\* a &self method returning r
Called(name, a, r, trace) ==
    /\ budget > 0
    /\ budget' = budget - 1
    /\ pre' = self
    /\ op' = name
    /\ args' = a
    /\ ret' = r
    /\ acos_calls' = trace
    /\ UNCHANGED <<self, ctor, chain_unit>>

\* a &mut self method leaving q in the receiver
Mutated(name, a, q, keeps) ==
    /\ budget > 0
    /\ budget' = budget - 1
    /\ pre' = self
    /\ self' = q
    /\ op' = name
    /\ args' = a
    /\ ret' = Unit
    /\ acos_calls' = <<>>
    /\ chain_unit' = (chain_unit /\ keeps)
    /\ UNCHANGED ctor

InitWith(b) ==
    /\ self = identity
    /\ ctor = [op |-> "identity", args |-> Unit]
    /\ pre = identity
    /\ op = "identity"
    /\ args = Unit
    /\ ret = identity
    /\ acos_calls = <<>>
    /\ budget = b
    /\ chain_unit = TRUE

Init == InitWith(MaxCalls)

InitRot == InitWith(MaxChain)

(***************************************************************************)
(* Constructors.                                                           *)
(***************************************************************************)
Identity == Constructed("identity", Unit, identity)

New == \E q \in QuatIn :
    Constructed("new", [w |-> q.s, xi |-> q.v.x, yj |-> q.v.y, zk |-> q.v.z],
                new(q.s, q.v.x, q.v.y, q.v.z))

FromSv == \E s \in ScalarIn, v \in VecIn :
    Constructed("from_sv", [s |-> s, v |-> v], from_sv(s, v))

BetweenVectors == \E a \in VecIn, b \in VecIn :
    Constructed("between_vectors", [a |-> a, b |-> b], between_vectors(a, b))

FromAxisAngle == \E axis \in VecIn, angle \in AngleIn :
    Constructed("from_axis_angle", [axis |-> axis, angle |-> angle],
                from_axis_angle(axis, angle))

(***************************************************************************)
(* Methods.                                                                *)
(***************************************************************************)
\* quaternion arguments of the pure operators: the inputs, and the receiver's
\* conjugate and inverse
OtherIn == QuatIn \cup {conjugate(self), invert(self)}

MulS == \E value \in ScalarIn :
    Called("mul_s", [value |-> value], mul_s(self, value), <<>>)

DivS == \E value \in ScalarIn :
    Called("div_s", [value |-> value], div_s(self, value), <<>>)

MulV == \E vec \in VecIn :
    Called("mul_v", [vec |-> vec], mul_v(self, vec), <<>>)

AddQ == \E other \in OtherIn :
    Called("add_q", [other |-> other], add_q(self, other), <<>>)

SubQ == \E other \in OtherIn :
    Called("sub_q", [other |-> other], sub_q(self, other), <<>>)

MulQ == \E other \in OtherIn :
    Called("mul_q", [other |-> other], mul_q(self, other), <<>>)

MulSelfS == \E s \in ScalarIn :
    Mutated("mul_self_s", [s |-> s], mul_self_s(self, s), FALSE)

DivSelfS == \E s \in ScalarIn :
    Mutated("div_self_s", [s |-> s], div_self_s(self, s), FALSE)

AddSelfQ == \E other \in QuatIn :
    Mutated("add_self_q", [other |-> other], add_self_q(self, other), FALSE)

SubSelfQ == \E other \in QuatIn :
    Mutated("sub_self_q", [other |-> other], sub_self_q(self, other), FALSE)

MulSelfQ == \E other \in QuatIn :
    Mutated("mul_self_q", [other |-> other], mul_self_q(self, other), FALSE)

Conjugate == Called("conjugate", Unit, conjugate(self), <<>>)

Magnitude2 == Called("magnitude2", Unit, magnitude2(self), <<>>)

Normalize == Called("normalize", Unit, normalize(self), <<>>)

Nlerp == \E other \in QuatIn, amount \in AmountIn :
    Called("nlerp", [other |-> other, amount |-> amount], nlerp(self, other, amount), <<>>)

Slerp == \E other \in QuatIn, amount \in AmountIn :
    Called("slerp", [other |-> other, amount |-> amount], slerp(self, other, amount),
           slerp_acos_calls(self, other))

ToMatrix3 == Called("to_matrix3", Unit, to_matrix3(self), <<>>)

RotateVector == \E vec \in VecIn :
    Called("rotate_vector", [vec |-> vec], rotate_vector(self, vec), <<>>)

Concat == \E other \in OtherIn :
    Called("concat", [other |-> other], concat(self, other), <<>>)

Invert == Called("invert", Unit, invert(self), <<>>)

InvertSelf == Mutated("invert_self", Unit, invert_self(self), TRUE)

\* the rotation chain: concat and concat_self with the quaternions of RotIn
RotConcat == \E other \in RotIn :
    Called("concat", [other |-> other], concat(self, other), <<>>)

RotConcatSelf == \E other \in RotIn :
    Mutated("concat_self", [other |-> other], concat_self(self, other),
            magnitude2(other) = one_s)

(***************************************************************************)
(* Specifications.                                                         *)
(***************************************************************************)
\* the algebra: construction, the pure operators and their in-place variants
Next ==
    \/ Identity \/ New
    \/ MulS \/ DivS \/ AddQ \/ SubQ \/ MulQ
    \/ MulSelfS \/ DivSelfS \/ AddSelfQ \/ SubSelfQ \/ MulSelfQ
    \/ Conjugate \/ Magnitude2
    \/ Concat \/ Invert \/ InvertSelf

Spec == Init /\ [][Next]_vars

\* rotating vectors: the constructors from vectors and angles, mul_v, to_matrix3
NextVec ==
    \/ New \/ FromSv \/ BetweenVectors \/ FromAxisAngle
    \/ MulV \/ RotateVector \/ ToMatrix3

SpecVec == Init /\ [][NextVec]_vars

\* interpolation
NextSlerp == New \/ Normalize \/ Nlerp \/ Slerp

SpecSlerp == Init /\ [][NextSlerp]_vars

\* a chain of rotation-interface calls on identity()
NextRot == RotConcat \/ RotConcatSelf \/ Invert \/ InvertSelf

SpecRot == InitRot /\ [][NextRot]_vars

(***************************************************************************)
(* Properties.                                                             *)
(***************************************************************************)
IsFinV(v) == IsFin(v.x) /\ IsFin(v.y) /\ IsFin(v.z)

IsFinQ(q) == IsFin(q.s) /\ IsFinV(q.v)

IsUnitQ(q) == magnitude2(q) = one_s

IsUnitV(v) == v_length2(v) = one_s

minus_one_s == SNeg(one_s)

\* C1: sub_q returns the componentwise difference of the receiver and other.
C1_SubQIsDifference ==
    op = "sub_q" =>
        \A n \in 0..3 : i(ret, n) = SSub(i(pre, n), i(args.other, n))

\* C2: every in-place variant leaves in the receiver what its pure counterpart
\* returns on the receiver's value before the call.
C2_InPlaceMatchesPure ==
    /\ op = "mul_self_s" => self = mul_s(pre, args.s)
    /\ op = "div_self_s" /\ args.s # zero_s => self = div_s(pre, args.s)
    /\ op = "add_self_q" => self = add_q(pre, args.other)
    /\ op = "sub_self_q" => self = sub_q(pre, args.other)
    /\ op = "mul_self_q" => self = mul_q(pre, args.other)

\* C3: mul_q is the Hamilton product: scalar part a_s*b_s - dot(a_v, b_v),
\* vector part a_s*b_v + b_s*a_v + cross(a_v, b_v).
C3_MulQIsHamilton ==
    op = "mul_q" /\ IsFinQ(pre) /\ IsFinQ(args.other) =>
        LET a == pre
            b == args.other
        IN  /\ ret.s = SSub(SMul(a.s, b.s), v_dot(a.v, b.v))
            /\ ret.v = v_add_v(v_add_v(v_mul_s(b.v, a.s), v_mul_s(a.v, b.s)),
                               v_cross(a.v, b.v))

\* C3 (witness): a product that differs from the product in the other order.
C3_NonCommuting ==
    /\ op = "mul_q" /\ IsFinQ(pre) /\ IsFinQ(args.other)
    /\ ret # mul_q(args.other, pre)

\* C4: q.mul_q(q.conjugate()) is (magnitude2(q), 0, 0, 0), for unit and
\* non-unit q alike.
C4_ConjugateProduct ==
    op = "mul_q" /\ IsFinQ(pre) /\ args.other = conjugate(pre) =>
        ret = from_sv(magnitude2(pre), Vector3_zero)

\* C4 (witness): the product of a non-unit quaternion with its conjugate.
C4_NonUnitTimesConjugate ==
    /\ op = "mul_q" /\ IsFinQ(pre) /\ args.other = conjugate(pre)
    /\ pre.v.x # zero_s /\ pre.v.y # zero_s /\ pre.v.z # zero_s /\ pre.s # zero_s
    /\ ~IsUnitQ(pre)

\* C5: for q of nonzero magnitude2, q.concat(q.invert()) is identity(); invert
\* is the conjugate divided componentwise by magnitude2, and invert_self
\* leaves that inverse in the receiver.
C5_InverseLaw ==
    LET Inverse(q, r) ==
            \A n \in 0..3 : i(r, n) = SDiv(i(conjugate(q), n), magnitude2(q))
        Invertible(q) == IsFinQ(q) /\ magnitude2(q) # zero_s
    IN  /\ op = "invert" /\ Invertible(pre) => Inverse(pre, ret)
        /\ op = "concat" /\ Invertible(pre) /\ Inverse(pre, args.other) =>
               ret = identity
        /\ op = "invert_self" /\ Invertible(pre) =>
               Inverse(pre, self) /\ concat(pre, self) = identity

\* C5 (witness): a non-unit quaternion concatenated with its inverse.
C5_NonUnitTimesInverse ==
    /\ op = "concat" /\ IsFinQ(pre) /\ args.other = invert(pre)
    /\ magnitude2(pre) # zero_s /\ ~IsUnitQ(pre)
    /\ pre.v # Vector3_zero

\* the product of a 3x3 matrix and a column vector, the nine arguments of
\* Matrix3::new read as three rows
RowsTimes(m, v) ==
    Vector3_new(SAdd(SAdd(SMul(m[1], v.x), SMul(m[2], v.y)), SMul(m[3], v.z)),
                SAdd(SAdd(SMul(m[4], v.x), SMul(m[5], v.y)), SMul(m[6], v.z)),
                SAdd(SAdd(SMul(m[7], v.x), SMul(m[8], v.y)), SMul(m[9], v.z)))

\* the same product, the nine arguments read as three columns
ColumnsTimes(m, v) ==
    Vector3_new(SAdd(SAdd(SMul(m[1], v.x), SMul(m[4], v.y)), SMul(m[7], v.z)),
                SAdd(SAdd(SMul(m[2], v.x), SMul(m[5], v.y)), SMul(m[8], v.z)),
                SAdd(SAdd(SMul(m[3], v.x), SMul(m[6], v.y)), SMul(m[9], v.z)))

\* C6 (as stated): for unit q, the matrix of q.to_matrix3(), its nine
\* constructor arguments read in row-major order, takes v to q.rotate_vector(v).
C6_RowMajorMatrixRotates ==
    op = "rotate_vector" /\ IsUnitQ(pre) =>
        RowsTimes(to_matrix3(pre), args.vec) = ret

\* C6 (amended): for unit q, the matrix of q.to_matrix3(), its nine
\* constructor arguments read in column-major order, takes v to
\* q.rotate_vector(v).
C6_ColumnMajorMatrixRotates ==
    op = "rotate_vector" /\ IsUnitQ(pre) =>
        ColumnsTimes(to_matrix3(pre), args.vec) = ret

\* C6 (witness): a unit quaternion with nonzero scalar and vector part moves
\* a vector.
C6_UnitRotationMovesVector ==
    /\ op = "rotate_vector" /\ IsUnitQ(pre)
    /\ pre.s # zero_s /\ pre.v # Vector3_zero
    /\ ret # args.vec

\* C7: a rotation about an axis leaves the axis where it is:
\* from_axis_angle(axis, angle).rotate_vector(axis) = axis, and
\* from_sv(c, a.mul_s(k)).mul_v(a) = a for all scalars c, k and vectors a.
C7_AxisIsFixed ==
    /\ op = "rotate_vector" /\ ctor.op = "from_axis_angle" /\ IsFinQ(pre)
          /\ args.vec = ctor.args.axis
       => ret = args.vec
    /\ op \in {"rotate_vector", "mul_v"} /\ ctor.op = "from_sv"
          /\ (\E k \in ScalarIn : ctor.args.v = v_mul_s(args.vec, k))
       => ret = args.vec

\* C7 (witness): a half turn about a nonzero axis, applied to the axis.
C7_HalfTurnAboutAxis ==
    /\ op = "rotate_vector" /\ ctor.op = "from_axis_angle" /\ IsFinQ(pre)
    /\ args.vec = ctor.args.axis
    /\ pre.v # Vector3_zero /\ pre.s = zero_s

\* C8: for unit vectors a and b = -a the quaternion between_vectors builds is
\* zero, of magnitude2 0, and normalizing it divides by zero: the result is
\* not a unit quaternion.  For every other pair of unit vectors the quaternion
\* built has nonzero magnitude2.
C8_AntiparallelSingularity ==
    op = "between_vectors" /\ IsUnitV(args.a) /\ IsUnitV(args.b) =>
        LET m == between_vectors_sv(args.a, args.b)
        IN  IF args.b = v_neg(args.a)
            THEN /\ m.s = zero_s /\ m.v = Vector3_zero
                 /\ magnitude2(m) = zero_s
                 /\ SDiv(one_s, magnitude(m)) = PosInf
                 /\ self = new(NaN, NaN, NaN, NaN)
                 /\ ~IsUnitQ(self)
            ELSE magnitude2(m) # zero_s

\* C8 (witness): between_vectors of a unit vector and its negation.
C8_AntiparallelCall ==
    /\ op = "between_vectors" /\ IsUnitV(args.a)
    /\ args.b = v_neg(args.a)

\* C9: when dot > 0.9995 slerp returns nlerp and calls no acos; otherwise it
\* calls acos once, with dot clamped into [-1, 1].
C9_SlerpBranches ==
    op = "slerp" =>
        LET d == dot(pre, args.other)
        IN  IF SGt(d, Frac(1999, 2000))
            THEN /\ ret = nlerp(pre, args.other, args.amount)
                 /\ acos_calls = <<>>
            ELSE /\ Len(acos_calls) = 1
                 /\ ~SLt(acos_calls[1], minus_one_s)
                 /\ ~SGt(acos_calls[1], one_s)
                 /\ acos_calls[1] =
                        (IF SGt(d, one_s) THEN one_s
                         ELSE IF SLt(d, minus_one_s) THEN minus_one_s
                         ELSE d)

\* C9 (witness): non-unit inputs whose dot product is below -1.
C9_ClampedBelow ==
    /\ op = "slerp"
    /\ SLt(dot(pre, args.other), minus_one_s)
    /\ acos_calls = <<minus_one_s>>

\* C10: identity() concatenated with quaternions of magnitude2 1 and inverted,
\* any number of times, has magnitude2 1, as has every value those calls
\* return; and magnitude2 of a product is the product of the magnitude2s.
C10_UnitNormPreserved ==
    /\ chain_unit => IsUnitQ(self)
    /\ chain_unit /\ op = "concat" /\ IsUnitQ(args.other) => IsUnitQ(ret)
    /\ chain_unit /\ op = "invert" => IsUnitQ(ret)
    /\ op = "concat" /\ IsFinQ(pre) /\ IsFinQ(args.other) =>
           magnitude2(ret) = SMul(magnitude2(pre), magnitude2(args.other))
    /\ op = "concat_self" /\ IsFinQ(pre) /\ IsFinQ(args.other) =>
           magnitude2(self) = SMul(magnitude2(pre), magnitude2(args.other))

\* C10 (witness): a chain of MaxChain unit concatenations and inversions that
\* ends away from the coordinate axes.
C10_LongUnitChain ==
    /\ chain_unit /\ budget = 0 /\ op = "concat_self"
    /\ self.s # zero_s /\ self.v.x # zero_s /\ self.v.y # zero_s

=============================================================================
